---- MODULE Spec2Model ----
(***************************************************************************)
(* Model of hawking (src/index.ts): the build-directory cleaner.           *)
(*                                                                         *)
(* The file system under process.cwd() is an input.  It is a finite        *)
(* ordered tree: nodes 1..fs.n numbered in depth-first pre-order, node 0   *)
(* being the start directory.  The children of a directory, in increasing  *)
(* node number, are the order in which fs.readdir lists them.  A path is   *)
(* the sequence of entry names leading from the start directory to a node  *)
(* (<<>> is the start directory itself).                                   *)
(***************************************************************************)
EXTENDS Integers, Sequences, FiniteSets, TLC

\* ------------------------------------------------------------------ bounds
\* Largest number of entries (at any depth) below the start directory.
MaxNodes == 3

\* ------------------------------------------------------- the file system
\* Entry names.  "src" stands for any ordinary directory name, ".git" for
\* any name with a leading dot, "index.js" for any ordinary file name.
Names == {"node_modules", "target", "Cargo.toml", ".git", "src", "index.js"}

\* The names n of the model for which n.startsWith(".") is true.
HiddenNames == {".git"}

\* The kinds of entry the file systems of the model are made of: a name and
\* what Dirent.isDirectory() answers for it.
EntryKinds ==
  { [name |-> "node_modules", isDir |-> TRUE],
    [name |-> "target",       isDir |-> TRUE],
    [name |-> ".git",         isDir |-> TRUE],
    [name |-> "src",          isDir |-> TRUE],
    [name |-> "node_modules", isDir |-> FALSE],
    [name |-> "Cargo.toml",   isDir |-> FALSE],
    [name |-> "index.js",     isDir |-> FALSE] }

VARIABLES
  fs,               \* the directory tree below process.cwd() (input)
  removed,          \* paths on which fs.rm has completed successfully
  pc,               \* where main() stands
  projects,         \* const projects (result of findBuildDirectories)
  selectedProjects, \* answer of the checkbox prompt
  confirm,          \* answer of the confirm prompt: "none", "yes", "no"
  del,              \* state of each deleteBuildDirectory promise
  deleteCalls,      \* the directories fs.rm was called on
  activeSpinner,    \* let activeSpinner: "none", "searching", "deleting"
  report,           \* spinner.succeed / spinner.fail: "none", "succeed", "fail"
  listening,        \* setupCleanup has registered the process listeners
  fatal,            \* "none", "rejected" (main rejected), "uncaught"
  exited,           \* the process has terminated
  exitCode          \* the code handed to the operating system

vars == <<fs, removed, pc, projects, selectedProjects, confirm, del,
          deleteCalls, activeSpinner, report, listening, fatal, exited,
          exitCode>>

RECURSIVE AncestorsOrSelf(_, _)
AncestorsOrSelf(parent, i) ==
  IF i = 0 THEN {0} ELSE {i} \cup AncestorsOrSelf(parent, parent[i])

\* The file system with nothing below the start directory.
EmptyTree ==
  [ n |-> 0, parent |-> <<>>, name |-> <<>>, isDir |-> <<>>, size |-> <<>>,
    bad |-> {} ]

\* The entries of directory d, in listing order, are the i with parent[i] = d.
\* size[i] is the byte size fs.stat reports for entry i: the sizes are distinct
\* powers of two, so that a sum tells which entries were summed.  bad is the
\* set of entries on which fs.readdir (a directory) or fs.stat (any other
\* entry) fails.
\* Adding entry n to a tree of n - 1 entries keeps the pre-order numbering
\* (the parent p lies on the branch of entry n - 1); only a directory has
\* entries, and the names within one directory are distinct.
CanAdd(t, p, k) ==
  /\ t.n < MaxNodes
  /\ p \in AncestorsOrSelf(t.parent, t.n)
  /\ p # 0 => t.isDir[p]
  /\ \A j \in 1..t.n : t.parent[j] = p => t.name[j] # k.name

AddedTree(t, p, k, faulty) ==
  [ n      |-> t.n + 1,
    parent |-> Append(t.parent, p),
    name   |-> Append(t.name, k.name),
    isDir  |-> Append(t.isDir, k.isDir),
    size   |-> Append(t.size, 2 ^ t.n),
    bad    |-> IF faulty THEN t.bad \cup {t.n + 1} ELSE t.bad ]

\* ------------------------------------------------------------ fs and path
\* path.join(dir, name)
join(dir, name) == Append(dir, name)

\* path.dirname(p)
dirname(p) == SubSeq(p, 1, Len(p) - 1)

\* name.startsWith(".")
startsWithDot(name) == name \in HiddenNames

\* The entry a path names in tree t (the paths the program builds all come
\* from directory listings, so the entry exists).
RECURSIVE Walk(_, _, _, _)
Walk(t, d, p, k) ==
  IF k > Len(p) THEN d
  ELSE Walk(t, CHOOSE i \in 1..t.n : t.parent[i] = d /\ t.name[i] = p[k],
            p, k + 1)

NodeAt(t, p) == Walk(t, 0, p, 1)

\* fs.readdir(p, { withFileTypes: true }) on a directory that can be listed:
\* its Dirents, in listing order.
readdir(t, p) ==
  LET d   == NodeAt(t, p)
      ids == SelectSeq([i \in 1..t.n |-> i], LAMBDA i : t.parent[i] = d)
  IN  [k \in 1..Len(ids) |-> [name |-> t.name[ids[k]], isDir |-> t.isDir[ids[k]]]]

\* fs.readdir(p) throws.
ReaddirFails(t, p) == NodeAt(t, p) \in t.bad

\* fs.stat(p) throws.
StatFails(t, p) == NodeAt(t, p) \in t.bad

\* (await fs.stat(p)).size
StatSize(t, p) == t.size[NodeAt(t, p)]

\* ------------------------------------------------------- getDirectorySize
RECURSIVE getDirectorySize(_, _)
RECURSIVE SizeLoop(_, _, _, _, _)

\* SizeLoop with the recursion into subdirectories left out.
SizeLoopFlat(t, dirPath, files, k, size) ==
  IF k > Len(files) THEN size
  ELSE LET file     == files[k]
           filePath == join(dirPath, file.name)
       IN  IF file.isDir
             THEN SizeLoop(t, dirPath, files, k + 1, size)
           ELSE IF StatFails(t, filePath)
             THEN size
           ELSE SizeLoop(t, dirPath, files, k + 1,
                         size + StatSize(t, filePath))

\* The for loop of getDirectorySize from its k-th Dirent on, size being the
\* sum so far.  A stat that throws leaves the loop for the catch clause, and
\* the sum so far is returned.
SizeLoop(t, dirPath, files, k, size) ==
  IF k > Len(files) THEN size
  ELSE LET file     == files[k]
           filePath == join(dirPath, file.name)
       IN  IF file.isDir
             THEN SizeLoop(t, dirPath, files, k + 1,
                           size + getDirectorySize(t, filePath))
           ELSE IF StatFails(t, filePath)
             THEN size
           ELSE SizeLoop(t, dirPath, files, k + 1,
                         size + StatSize(t, filePath))

getDirectorySize(t, dirPath) ==
  IF ReaddirFails(t, dirPath) THEN 0
  ELSE SizeLoop(t, dirPath, readdir(t, dirPath), 1, 0)

\* ---------------------------------------------------------- isRustProject
isRustProject(t, dirPath) ==
  IF ReaddirFails(t, dirPath) THEN FALSE
  ELSE \E k \in DOMAIN readdir(t, dirPath) :
         readdir(t, dirPath)[k].name = "Cargo.toml"

\* --------------------------------------------------- findBuildDirectories
\* ProjectInfo with the directory above the project directory as its path.
ProjectInfoOfGrandparent(fullPath, size, type) ==
  [path |-> dirname(dirname(fullPath)), size |-> size, type |-> type]

\* The object pushed on results (nice_path, the same path with the home
\* directory abbreviated for display, is left out).
ProjectInfo(fullPath, size, type) ==
  [path |-> dirname(fullPath), size |-> size, type |-> type]

\* ContinueSearching without the test for "target".
ContinueSearchingIntoTarget(name) ==
  ~startsWithDot(name) /\ name # "node_modules"

\* ContinueSearching without the test for a leading dot.
ContinueSearchingIntoHidden(name) ==
  name # "node_modules" /\ name # "target"

\* The condition of the last else-if: continue searching.
ContinueSearching(name) ==
  ~startsWithDot(name) /\ name # "node_modules" /\ name # "target"

RECURSIVE findBuildDirectories(_, _, _)
RECURSIVE SearchLoop(_, _, _, _, _)

\* VisitEntry that goes on searching inside a directory it has matched.
VisitEntryDescending(t, startPath, file, results) ==
  LET fullPath == join(startPath, file.name) IN
  IF ~file.isDir THEN results
  ELSE IF file.name = "node_modules"
    THEN findBuildDirectories(t, fullPath,
           Append(results,
                  ProjectInfo(fullPath, getDirectorySize(t, fullPath), "node")))
  ELSE IF file.name = "target" /\ isRustProject(t, dirname(fullPath))
    THEN findBuildDirectories(t, fullPath,
           Append(results,
                  ProjectInfo(fullPath, getDirectorySize(t, fullPath), "rust")))
  ELSE IF ContinueSearching(file.name)
    THEN findBuildDirectories(t, fullPath, results)
  ELSE results

\* The body of the for loop for one Dirent: results after it.
VisitEntry(t, startPath, file, results) ==
  LET fullPath == join(startPath, file.name) IN
  IF ~file.isDir THEN results
  ELSE IF file.name = "node_modules"
    THEN Append(results,
                ProjectInfo(fullPath, getDirectorySize(t, fullPath), "node"))
  ELSE IF file.name = "target" /\ isRustProject(t, dirname(fullPath))
    THEN Append(results,
                ProjectInfo(fullPath, getDirectorySize(t, fullPath), "rust"))
  ELSE IF ContinueSearching(file.name)
    THEN findBuildDirectories(t, fullPath, results)
  ELSE results

SearchLoop(t, startPath, files, k, results) ==
  IF k > Len(files) THEN results
  ELSE SearchLoop(t, startPath, files, k + 1,
                  VisitEntry(t, startPath, files[k], results))

\* findBuildDirectories whose catch clause returns an empty list.
findBuildDirectoriesDropping(t, startPath, results) ==
  IF ReaddirFails(t, startPath) THEN <<>>
  ELSE SearchLoop(t, startPath, readdir(t, startPath), 1, results)

findBuildDirectories(t, startPath, results) ==
  IF ReaddirFails(t, startPath) THEN results
  ELSE SearchLoop(t, startPath, readdir(t, startPath), 1, results)

\* path.join(projectPath, type === "node" ? "node_modules" : "target")
BuildDirectory(projectPath, type) ==
  join(projectPath, IF type = "node" THEN "node_modules" ELSE "target")

\* ------------------------------------------------------------ process.exit
\* process.exit(code): the code the process ends with.  The first call emits
\* 'exit'; handleExit, which setupCleanup registered for 'exit', then calls
\* process.exit(0) itself, and that inner call ends the process.  exiting says
\* that 'exit' has been emitted already.
RECURSIVE processExit(_, _)
processExit(code, exiting) ==
  IF exiting THEN code ELSE processExit(0, TRUE)

\* handleExit(): cleanup() stops the spinner, then process.exit(0).
handleExit ==
  /\ activeSpinner' = "none"
  /\ exitCode' = processExit(0, FALSE)
  /\ exited' = TRUE

\* DeleteArgs mapping every project found instead of the selected ones.
DeleteArgsOfAll(selected) ==
  [i \in DOMAIN projects |->
     [path |-> projects[i].path, type |-> projects[i].type]]

\* The arguments of the deleteBuildDirectory calls that main maps the
\* selection to.
DeleteArgs(selected) ==
  [i \in DOMAIN selected |->
     [path |-> selected[i].path, type |-> selected[i].type]]

\* The entries of seq whose index is in S, in order.
Pick(seq, S) ==
  LET ids == SelectSeq([i \in DOMAIN seq |-> i], LAMBDA i : i \in S)
  IN  [k \in 1..Len(ids) |-> seq[ids[k]]]

\* ------------------------------------------------------------------ actions
Init ==
  /\ fs \in { [EmptyTree EXCEPT !.bad = b] : b \in SUBSET {0} }
  /\ removed = {}
  /\ pc = "start"
  /\ projects = <<>>
  /\ selectedProjects = <<>>
  /\ confirm = "none"
  /\ del = <<>>
  /\ deleteCalls = <<>>
  /\ activeSpinner = "none"
  /\ report = "none"
  /\ listening = FALSE
  /\ fatal = "none"
  /\ exited = FALSE
  /\ exitCode = 0

\* Before the program runs: one more entry appears below process.cwd(); faulty
\* says that reading it (readdir or stat) will fail.
AddEntry(p, k, faulty) ==
  /\ pc = "start"
  /\ CanAdd(fs, p, k)
  /\ fs' = AddedTree(fs, p, k, faulty)
  /\ UNCHANGED <<removed, pc, projects, selectedProjects, confirm, del,
                 deleteCalls, activeSpinner, report, listening, fatal,
                 exited, exitCode>>

\* main() up to its first await: setupCleanup(), the search spinner starts,
\* findBuildDirectories(process.cwd()) is called.
MainStart ==
  /\ pc = "start"
  /\ pc' = "scanning"
  /\ listening' = TRUE
  /\ activeSpinner' = "searching"
  /\ UNCHANGED <<fs, removed, projects, selectedProjects, confirm, del,
                 deleteCalls, report, fatal, exited, exitCode>>

\* A call of main outside its try block throws: main() rejects and the
\* handler of main().catch runs cleanup() and process.exit(1).
MainRejects ==
  /\ pc \in {"start", "scanning"}
  /\ ~exited
  /\ pc' = "rejected"
  /\ listening' = TRUE
  /\ fatal' = "rejected"
  /\ activeSpinner' = "none"
  /\ exitCode' = processExit(1, FALSE)
  /\ exited' = TRUE
  /\ UNCHANGED <<fs, removed, projects, selectedProjects, confirm, del,
                 deleteCalls, report>>

\* findBuildDirectories resolves; main stops the spinner and either returns
\* ("No build directories found.") or shows the checkbox prompt.
ScanDone ==
  /\ pc = "scanning"
  /\ ~exited
  /\ projects' = findBuildDirectories(fs, <<>>, <<>>)
  /\ activeSpinner' = "none"
  /\ pc' = IF Len(projects') = 0 THEN "returned" ELSE "select"
  /\ UNCHANGED <<fs, removed, selectedProjects, confirm, del, deleteCalls,
                 report, listening, fatal, exited, exitCode>>

\* The checkbox prompt answers with the choices whose index is in S.
Select(S) ==
  /\ pc = "select"
  /\ ~exited
  /\ selectedProjects' = Pick(projects, S)
  /\ pc' = IF S = {} THEN "returned" ELSE "confirm"
  /\ UNCHANGED <<fs, removed, projects, confirm, del, deleteCalls,
                 activeSpinner, report, listening, fatal, exited, exitCode>>

\* A prompt rejects (the user force closed it): catch, finally, return.
PromptClosed ==
  /\ pc \in {"select", "confirm"}
  /\ ~exited
  /\ pc' = "returned"
  /\ UNCHANGED <<fs, removed, projects, selectedProjects, confirm, del,
                 deleteCalls, activeSpinner, report, listening, fatal,
                 exited, exitCode>>

\* The confirm prompt answers.  On "no" main returns; on "yes" the deleting
\* spinner starts and every deleteBuildDirectory call issues its fs.rm.
Confirm(yes) ==
  /\ pc = "confirm"
  /\ ~exited
  /\ confirm' = IF yes THEN "yes" ELSE "no"
  /\ IF yes
       THEN /\ activeSpinner' = "deleting"
            /\ deleteCalls' = DeleteArgs(selectedProjects)
            /\ del' = [i \in DOMAIN deleteCalls' |-> "running"]
            /\ pc' = "deleting"
       ELSE /\ pc' = "returned"
            /\ UNCHANGED <<activeSpinner, deleteCalls, del>>
  /\ UNCHANGED <<fs, removed, projects, selectedProjects, report, listening,
                 fatal, exited, exitCode>>

\* The fs.rm of the i-th deleteBuildDirectory call settles.  Promise.all
\* rejects with the first rejection and fulfils with the last fulfilment;
\* main then reports on the spinner, runs cleanup() and returns.
RmSettles(i, ok) ==
  /\ ~exited
  /\ i \in DOMAIN del
  /\ del[i] = "running"
  /\ del' = [del EXCEPT ![i] = IF ok THEN "done" ELSE "failed"]
  /\ removed' = IF ok
                  THEN removed \cup
                         {BuildDirectory(deleteCalls[i].path, deleteCalls[i].type)}
                  ELSE removed
  /\ IF pc = "deleting" /\ ~ok
       THEN report' = "fail" /\ activeSpinner' = "none" /\ pc' = "returned"
     ELSE IF pc = "deleting" /\ \A j \in DOMAIN del' : del'[j] = "done"
       THEN report' = "succeed" /\ activeSpinner' = "none" /\ pc' = "returned"
     ELSE UNCHANGED <<report, activeSpinner, pc>>
  /\ UNCHANGED <<fs, projects, selectedProjects, confirm, deleteCalls,
                 listening, fatal, exited, exitCode>>

\* main has returned and nothing is pending: 'beforeExit' calls handleExit.
BeforeExit ==
  /\ pc = "returned"
  /\ ~exited
  /\ \A j \in DOMAIN del : del[j] # "running"
  /\ handleExit
  /\ UNCHANGED <<fs, removed, pc, projects, selectedProjects, confirm, del,
                 deleteCalls, report, listening, fatal>>

\* SIGTERM or SIGQUIT arrives: handleExit.
Signal ==
  /\ listening
  /\ ~exited
  /\ handleExit
  /\ UNCHANGED <<fs, removed, pc, projects, selectedProjects, confirm, del,
                 deleteCalls, report, listening, fatal>>

\* An exception reaches the 'uncaughtException' listener: it logs the error
\* and calls handleExit.
UncaughtException ==
  /\ listening
  /\ ~exited
  /\ fatal' = "uncaught"
  /\ handleExit
  /\ UNCHANGED <<fs, removed, pc, projects, selectedProjects, confirm, del,
                 deleteCalls, report, listening>>

Next ==
  \/ \E p \in 0..MaxNodes, k \in EntryKinds, faulty \in BOOLEAN :
       AddEntry(p, k, faulty)
  \/ MainStart
  \/ MainRejects
  \/ ScanDone
  \/ \E S \in SUBSET (DOMAIN projects) : Select(S)
  \/ PromptClosed
  \/ \E yes \in BOOLEAN : Confirm(yes)
  \/ \E i \in DOMAIN del, ok \in BOOLEAN : RmSettles(i, ok)
  \/ BeforeExit
  \/ Signal
  \/ UncaughtException

Spec == Init /\ [][Next]_vars

\* The runs in which nothing interrupts the program before the scan has
\* delivered its result: no signal, no exception.
NextScan ==
  \/ \E p \in 0..MaxNodes, k \in EntryKinds, faulty \in BOOLEAN :
       AddEntry(p, k, faulty)
  \/ MainStart
  \/ ScanDone

ScanSpec == Init /\ [][NextScan]_vars

\* ------------------------------------------------- vocabulary of the claims
\* The path of entry i of tree t.
RECURSIVE PathOf(_, _)
PathOf(t, i) ==
  IF i = 0 THEN <<>> ELSE Append(PathOf(t, t.parent[i]), t.name[i])

\* Path a is path b or leads to a directory above b.
IsPrefix(a, b) == Len(a) <= Len(b) /\ SubSeq(b, 1, Len(a)) = a

\* The directories (0 is the start directory) strictly above entry i.
ProperAncestors(t, i) == AncestorsOrSelf(t.parent, i) \ {i}

\* The directories of t that cannot be listed.
Unlistable(t) == { d \in t.bad : d = 0 \/ t.isDir[d] }

\* The artifact directory a result entry stands for.
ArtifactDir(p) ==
  Append(p.path, IF p.type = "node" THEN "node_modules" ELSE "target")

\* Directory d of t has an entry called nm.
HasEntry(t, d, nm) == \E i \in 1..t.n : t.parent[i] = d /\ t.name[i] = nm

\* Entry i of t is a directory called nm.
IsDirNamed(t, i, nm) == t.isDir[i] /\ t.name[i] = nm

RECURSIVE SumSizes(_, _)
SumSizes(t, S) ==
  IF S = {} THEN 0
  ELSE LET x == CHOOSE y \in S : TRUE IN t.size[x] + SumSizes(t, S \ {x})

\* The non-directory entries at any depth beneath directory d.
FilesBeneath(t, d) ==
  { i \in 1..t.n : ~t.isDir[i] /\ d \in ProperAncestors(t, i) }

\* Those of them that can be read: stat works on the entry, and every
\* directory from d down to the entry can be listed.
ReadableFilesBeneath(t, d) ==
  { i \in FilesBeneath(t, d) :
      /\ i \notin t.bad
      /\ \A a \in ProperAncestors(t, i) :
           d \in AncestorsOrSelf(t.parent, a) => a \notin t.bad }

\* main has received the result of findBuildDirectories.
Scanned == pc \in {"select", "confirm", "deleting", "returned"}

\* Tree t with every directory that cannot be listed made an empty directory
\* that can (the entries beneath it are gone, the others keep their order).
Emptied(t) ==
  LET kept == SelectSeq([i \in 1..t.n |-> i],
                        LAMBDA i : ProperAncestors(t, i) \cap Unlistable(t) = {})
      pos(i) == IF i = 0 THEN 0 ELSE CHOOSE k \in 1..Len(kept) : kept[k] = i
  IN  [ n      |-> Len(kept),
        parent |-> [k \in 1..Len(kept) |-> pos(t.parent[kept[k]])],
        name   |-> [k \in 1..Len(kept) |-> t.name[kept[k]]],
        isDir  |-> [k \in 1..Len(kept) |-> t.isDir[kept[k]]],
        size   |-> [k \in 1..Len(kept) |-> t.size[kept[k]]],
        bad    |-> { k \in 1..Len(kept) :
                       kept[k] \in t.bad /\ ~t.isDir[kept[k]] } ]

\* ------------------------------------------------------------------- claims
\* C1 (as stated): no two entries of the scan result have the same
\* projectPath.
C1_UniqueProjectPath ==
  \A i, j \in DOMAIN projects :
    i # j => projects[i].path # projects[j].path

\* C1 (amended): no two entries of the scan result have the same projectPath
\* and the same project type.
C1_UniquePathAndType ==
  \A i, j \in DOMAIN projects :
    i # j => <<projects[i].path, projects[i].type>>
               # <<projects[j].path, projects[j].type>>

\* Two entries for one project directory, one per artifact directory.
C1_Witness ==
  \E i, j \in DOMAIN projects :
    /\ i # j
    /\ projects[i].path = projects[j].path
    /\ projects[i].type = "node"
    /\ projects[j].type = "rust"

\* C2: no entry of the result has a projectPath equal to or inside an
\* artifact directory that the result reports.
C2_NoMatchInsideMatch ==
  \A i, j \in DOMAIN projects :
    ~IsPrefix(ArtifactDir(projects[i]), projects[j].path)

\* A reported node_modules that itself holds a node_modules directory.
C2_Witness ==
  /\ Scanned
  /\ \E i \in DOMAIN projects, e \in 1..fs.n :
       /\ projects[i].type = "node"
       /\ IsDirNamed(fs, e, "node_modules")
       /\ fs.parent[e] # 0
       /\ PathOf(fs, fs.parent[e]) = ArtifactDir(projects[i])

\* C3: a directory called target whose parent has no Cargo.toml entry gives no
\* rust entry for the parent, and no entry has a projectPath inside it.
C3_UnconfirmedTargetSkipped ==
  \A e \in 1..fs.n :
    (IsDirNamed(fs, e, "target") /\ ~HasEntry(fs, fs.parent[e], "Cargo.toml"))
      => \A i \in DOMAIN projects :
           /\ ~(projects[i].type = "rust"
                 /\ projects[i].path = PathOf(fs, fs.parent[e]))
           /\ ~IsPrefix(PathOf(fs, e), projects[i].path)

\* The scan has met an unconfirmed target, holding a node_modules directory,
\* in the start directory.
C3_Witness ==
  /\ Scanned
  /\ 0 \notin fs.bad
  /\ \E e, m \in 1..fs.n :
       /\ IsDirNamed(fs, e, "target")
       /\ fs.parent[e] = 0
       /\ e \notin fs.bad
       /\ ~HasEntry(fs, 0, "Cargo.toml")
       /\ IsDirNamed(fs, m, "node_modules")
       /\ fs.parent[m] = e

\* C4: deleteBuildDirectory is called only after the confirm prompt answered
\* yes, and only for entries that are in the scan result and in the selection;
\* with an empty result, an empty selection or no "yes" there is no call, and
\* nothing is removed but the directories of the calls.
C4_DeleteOnlyConfirmedSelection ==
  /\ \A i \in DOMAIN deleteCalls :
       /\ confirm = "yes"
       /\ \E j \in DOMAIN projects :
            /\ projects[j].path = deleteCalls[i].path
            /\ projects[j].type = deleteCalls[i].type
       /\ \E j \in DOMAIN selectedProjects :
            /\ selectedProjects[j].path = deleteCalls[i].path
            /\ selectedProjects[j].type = deleteCalls[i].type
  /\ (projects = <<>> \/ selectedProjects = <<>> \/ confirm # "yes")
       => deleteCalls = <<>>
  /\ \A d \in removed :
       \E i \in DOMAIN deleteCalls : d = ArtifactDir(deleteCalls[i])

\* Deletion has begun for a selection that leaves one of the projects out.
C4_Witness ==
  /\ deleteCalls # <<>>
  /\ Len(selectedProjects) < Len(projects)
  /\ removed # {}

\* A directory with files of 100 and 250 bytes and a subdirectory holding one
\* file of 50 bytes.
SizeExample ==
  [ n      |-> 4,
    parent |-> <<0, 0, 0, 3>>,
    name   |-> <<"index.js", "Cargo.toml", "src", "index.js">>,
    isDir  |-> <<FALSE, FALSE, TRUE, FALSE>>,
    size   |-> <<100, 250, 4096, 50>>,
    bad    |-> {} ]

\* C5: with every directory listable and every entry's metadata readable,
\* getDirectorySize of a directory is the sum of the sizes of the
\* non-directory entries at any depth beneath it (400 for files of 100 and 250
\* and a subdirectory with one file of 50), and the size of every entry of the
\* result is that sum for its artifact directory.
C5_SizeIsSumOfFiles ==
  /\ getDirectorySize(SizeExample, <<>>) = 400
  /\ fs.bad = {} =>
       /\ \A d \in 0..fs.n :
            (d = 0 \/ fs.isDir[d])
              => getDirectorySize(fs, PathOf(fs, d))
                   = SumSizes(fs, FilesBeneath(fs, d))
       /\ \A i \in DOMAIN projects :
            projects[i].size
              = SumSizes(fs, FilesBeneath(fs,
                               NodeAt(fs, ArtifactDir(projects[i]))))

\* A reported artifact directory with a file inside a subdirectory of it.
C5_Witness ==
  /\ Scanned
  /\ fs.bad = {}
  /\ \E i \in DOMAIN projects, f \in 1..fs.n :
       /\ ~fs.isDir[f]
       /\ fs.parent[f] # 0
       /\ fs.parent[fs.parent[f]] # 0
       /\ PathOf(fs, fs.parent[fs.parent[f]]) = ArtifactDir(projects[i])
       /\ projects[i].size = fs.size[f]

\* C6: no entry of the result has a projectPath equal to or inside a
\* directory below the start directory whose name begins with a dot; no
\* directory on the way to a match is hidden.
C6_HiddenNeverSearched ==
  /\ \A e \in 1..fs.n :
       (fs.isDir[e] /\ startsWithDot(fs.name[e]))
         => \A i \in DOMAIN projects :
              ~IsPrefix(PathOf(fs, e), projects[i].path)
  /\ \A i \in DOMAIN projects :
       \A k \in 1..Len(projects[i].path) :
         ~startsWithDot(projects[i].path[k])

\* The scan has met a hidden directory, holding a node_modules directory, in
\* the start directory.
C6_Witness ==
  /\ Scanned
  /\ 0 \notin fs.bad
  /\ \E e, m \in 1..fs.n :
       /\ fs.isDir[e] /\ startsWithDot(fs.name[e])
       /\ fs.parent[e] = 0
       /\ e \notin fs.bad
       /\ IsDirNamed(fs, m, "node_modules")
       /\ fs.parent[m] = e

\* C7: when the spinner reports succeed or fail, no delete operation is still
\* in progress.
C7_ReportAfterAllDeletes ==
  report # "none" => \A j \in DOMAIN del : del[j] # "running"

\* C8: the process ends with code 0 on normal completion and with a non-zero
\* code when main rejected or an uncaught exception reached the handler.
C8_ExitCode ==
  exited => /\ fatal = "none" => exitCode = 0
            /\ fatal # "none" => exitCode # 0

\* C9: the result of the scan is the result for the same tree with every
\* directory that cannot be listed treated as empty.
C9_UnlistableIsEmpty ==
  Scanned => projects = findBuildDirectories(Emptied(fs), <<>>, <<>>)

\* The scan met a directory that cannot be listed and holds a node_modules
\* directory, and reported a match that comes after it.
C9_Witness ==
  /\ Scanned
  /\ 0 \notin fs.bad
  /\ \E d, m \in 1..fs.n :
       /\ IsDirNamed(fs, d, "src")
       /\ fs.parent[d] = 0
       /\ d \in fs.bad
       /\ IsDirNamed(fs, m, "node_modules")
       /\ fs.parent[m] = d
       /\ \E i \in DOMAIN projects, a \in 1..fs.n :
            /\ a > d
            /\ PathOf(fs, a) = ArtifactDir(projects[i])

\* C10: the size of every entry of the result is the sum of the sizes of the
\* readable files beneath its artifact directory, only what cannot be read
\* counting zero.
C10_UnreadableCountsZero ==
  \A i \in DOMAIN projects :
    projects[i].size
      = SumSizes(fs, ReadableFilesBeneath(fs, NodeAt(fs, ArtifactDir(projects[i]))))

====
